---- MODULE Spec2Model ----
(***************************************************************************)
(* A model of freenome_build/db.py: the ephemeral test-database lifecycle  *)
(* (local docker container or kubernetes pod), its two readiness waits and *)
(* the data operations setup_db / insert_test_data / reset_data.           *)
(*                                                                         *)
(* The specifications share the module's variables:                        *)
(*   SpecContainer  _wait_for_container, one step per shelled-out command   *)
(*   SpecDbWait     _wait_for_db_cluster_to_start, one step per attempt     *)
(*   Spec           the container commands, one action per command          *)
(*   SpecData       the data commands on one running instance               *)
(*   SpecConnData   DbConnectionData's strings, one action per method       *)
(*   SpecK8s        the kubernetes commands, one action per command         *)
(*   SpecTestDb     the two start-*-test-db commands                        *)
(*   SpecModule     start_local_database / stop_local_database as called   *)
(*                  from Python                                             *)
(* External tools (docker, kubectl, psql, sqitch, repo scripts) are the    *)
(* environment: their outcomes are chosen nondeterministically.            *)
(***************************************************************************)
EXTENDS Integers, Sequences, FiniteSets, TLC

VARIABLES
    \* ---- _wait_for_container (db.py:117-141) ----
    cpc,             \* position: "idle", "loop", "events", "returned", "raised"
    attempts,        \* the local variable `attempts`
    last_timestamp,  \* the local variable `last_timestamp` ("" is 0)
    events,          \* the local variable `events`, as last fetched
    cexc,            \* the exception the wait ended with, "none" if none
    checks,          \* history: number of pod status checks made so far
    podPhase,        \* environment: the pod's phase as kubectl reports it
    podEvents,       \* environment: the pod's events, oldest first
    \* ---- _wait_for_db_cluster_to_start (db.py:101-114) ----
    wpc,             \* position: "idle", "connect", "sleep", "returned", "raised"
    max_wait_time,   \* parameter, in ticks
    recheck_interval,\* parameter, in ticks
    iter,            \* the loop variable of `for _ in range(...)`
    notReady,        \* environment: the probe fails on its first notReady calls, -1 = always
    connects,        \* history: connection attempts made
    sleeps,          \* history: sleeps made
    elapsed,         \* history: ticks spent in connects and sleeps
    \* ---- lifecycle on the local docker backend (db.py:149-425) ----
    containers,      \* environment: docker's containers, by name
    op,              \* the last operation called, with its arguments
    exc,             \* the exception it raised, "none" if it returned
    err,             \* the stderr carried by that exception
    ret,             \* the DbConnectionData it returned, NoConn if none
    log,             \* the commands it ran and the lines it printed, in order
    tool,            \* the exit of the migration tool, when the operation ran it
    scen,            \* history: progress through setup, insert, reset, insert
    repo,            \* the files under database/ of the repository at --path
    \* ---- class DbConnectionData (db.py:26-57) ----
    given,           \* the input: a DbConnectionData or a connection string
    parsed,          \* what from_conn_string returned
    conn_str,        \* what the property conn_string gave
    sqitch_str,      \* what the property sqitch_string gave
    pexc,            \* the exception from_conn_string raised, "none" if none
    pdone,           \* the methods called so far
    \* ---- lifecycle on the kubernetes backend (db.py:144-146, 222-243, 343-437) ----
    pods,            \* environment: the cluster's pods, by pod id
    kargs,           \* --pod_id and --host of the last kubernetes command
    ret_pod          \* the pod id the last kubernetes command returned

cvars == <<cpc, attempts, last_timestamp, events, cexc, checks, podPhase, podEvents>>
wvars == <<wpc, max_wait_time, recheck_interval, iter, notReady, connects, sleeps, elapsed>>
lvars == <<containers, op, exc, err, ret, log, tool, scen, repo>>
pvars == <<given, parsed, conn_str, sqitch_str, pexc, pdone>>
kvars == <<pods, kargs, ret_pod>>
vars == <<cvars, wvars, lvars, pvars, kvars>>
notContainer == <<wvars, lvars, pvars, kvars>>
notDbWait == <<cvars, lvars, pvars, kvars>>
notLifecycle == <<cvars, wvars, pvars>>
notConnData == <<cvars, wvars, lvars, kvars>>

(***************************************************************************)
(* Bounds of the model.                                                    *)
(***************************************************************************)
MaxEvents == 2        \* events the environment emits for one pod
MaxWaitTime == 4      \* largest max_wait_time tried, in ticks
MaxInterval == 2      \* largest recheck_interval tried, in ticks
MaxConnectTime == 1   \* longest a single connection attempt may take, in ticks
MaxNotReady == 5      \* largest number of leading not-ready answers of the probe

(***************************************************************************)
(* The lifecycle on the local docker backend                               *)
(***************************************************************************)
MaxRows == 2          \* bound: rows the fixture table may hold

PG_PORT == 5432
Ports == {PG_PORT, PG_PORT + 1}
NoPort == 0           \* port=None
DbNames == {"proj", "app"}
ProjectName == "proj" \* args.project_name
Names == DbNames \X Ports

\* class DbConnectionData; None is NoConn.
DbConnectionData(host, port, dbname, user, password) ==
    [host |-> host, port |-> port, dbname |-> dbname, user |-> user, password |-> password]
NoConn == DbConnectionData("None", NoPort, "None", "None", "None")

\* Python's None where a text is expected, and the idle values of the parts of
\* the state that a specification does not use.
None == <<"None">>
NoInput == [kind |-> "none", cd |-> NoConn, uri |-> None]
PodIds == {"db-1", "db-2"}
NoPod == [phase |-> "none", ip |-> "None", db |-> [database |-> FALSE, user |-> FALSE, deployed |-> FALSE, rows |-> 0]]
NoKArgs == [pod_id |-> "None", host |-> "None"]

\* db.py:202 and 324: f"{dbname}_{port}". A port is a number, so the pair
\* determines the string and the string the pair.
container_name(dbname, port) == <<dbname, port>>

\* A database cluster's contents: the project's database and user, whether the
\* migrations have created the fixture table, and the rows of that table.
FreshDb == [database |-> FALSE, user |-> FALSE, deployed |-> FALSE, rows |-> 0]
\* docker's record of one container name. "removed" is "none" for a name that
\* was in use before.
NoContainer == [status |-> "none", db |-> FreshDb]
Absent(c, name) == name \notin DOMAIN c \/ c[name].status \in {"none", "removed"}

\* Texts (stderr) are sequences of tokens; a token is a literal or a name.
NoName == <<"", 0>>
Lit(t) == [t |-> t, n |-> NoName]
NameTok(name) == [t |-> "{image_name}", n |-> name]
Whitespace == {Lit("\n"), Lit(" ")}
NoText == <<>>

RECURSIVE LStrip(_)
LStrip(text) == IF text # <<>> /\ Head(text) \in Whitespace THEN LStrip(Tail(text)) ELSE text
RECURSIVE RStrip(_)
RStrip(text) ==
    IF text # <<>> /\ text[Len(text)] \in Whitespace
    THEN RStrip(SubSeq(text, 1, Len(text) - 1))
    ELSE text
\* str.strip()
Strip(text) == RStrip(LStrip(text))

\* The process runner (freenome_build.util.run_and_log, as its callers in db.py
\* use it): a nonzero exit raises CalledProcessError carrying the stderr.
run_and_log(rc, stderr) ==
    IF rc # 0 THEN [exc |-> "CalledProcessError", err |-> stderr]
    ELSE [exc |-> "none", err |-> NoText]

\* ---- docker, the environment ----
DaemonError == <<Lit("Cannot connect to the Docker daemon"), Lit("\n")>>
NoSuchContainer(name) ==
    <<Lit("Error response from daemon: Cannot kill container:"), NameTok(name),
      Lit("No such container:"), NameTok(name), Lit("\n")>>
NotRunning(name) ==
    <<Lit("Error response from daemon: Cannot kill container:"), NameTok(name),
      Lit("Container"), NameTok(name), Lit("is not running"), Lit("\n")>>

\* `docker ps -a | grep {container_name}`: the exit status is grep's.
docker_ps_grep(c, name, fails) ==
    IF fails THEN 2
    ELSE IF \E n \in Names : ~Absent(c, n) /\ n = name THEN 0 ELSE 1

\* `docker rm {name}`: removes a stopped container, refuses a running one.
docker_rm(c, name, fails) ==
    IF ~fails /\ c[name].status = "exited"
    THEN [c |-> [c EXCEPT ![name] = [status |-> "removed", db |-> FreshDb]], rc |-> 0, stderr |-> NoText]
    ELSE [c |-> c, rc |-> 1, stderr |-> IF fails THEN DaemonError ELSE <<Lit("You cannot remove a running container"), Lit("\n")>>]

\* `docker run -d -p {port}:5432 --name {name} {image}`: refused when the name
\* is in use; created but not started when the host port is taken.
docker_run(c, name, port, fails) ==
    IF fails THEN [c |-> c, rc |-> 125, stderr |-> DaemonError]
    ELSE IF ~Absent(c, name)
    THEN [c |-> c, rc |-> 125, stderr |-> <<Lit("Conflict. The container name is already in use"), Lit("\n")>>]
    ELSE IF \E n \in Names : c[n].status = "running" /\ n[2] = port
    THEN [c |-> [c EXCEPT ![name] = [status |-> "exited", db |-> FreshDb]], rc |-> 125,
          stderr |-> <<Lit("port is already allocated"), Lit("\n")>>]
    ELSE [c |-> [c EXCEPT ![name] = [status |-> "running", db |-> FreshDb]], rc |-> 0, stderr |-> NoText]

\* `docker kill {name}`
docker_kill(c, name, fails) ==
    IF fails THEN [c |-> c, rc |-> 1, stderr |-> DaemonError]
    ELSE IF Absent(c, name) THEN [c |-> c, rc |-> 1, stderr |-> NoSuchContainer(name)]
    ELSE IF c[name].status = "exited" THEN [c |-> c, rc |-> 1, stderr |-> NotRunning(name)]
    ELSE [c |-> [c EXCEPT ![name] = [status |-> "exited", db |-> FreshDb]], rc |-> 0, stderr |-> NoText]

\* `docker rm -f {name}`
docker_rm_f(c, name, fails) ==
    IF fails THEN [c |-> c, rc |-> 1, stderr |-> DaemonError]
    ELSE [c |-> [c EXCEPT ![name] = [status |-> IF Absent(c, name) THEN c[name].status ELSE "removed",
                                     db |-> FreshDb]], rc |-> 0, stderr |-> NoText]

\* What the environment decides during one operation: which step, if any,
\* fails for a reason of its own (a shelled-out command, the database not
\* coming up within the wait, the migration, a script of the repository),
\* and which port is found free. An operation stops at its first failure, so
\* one failing step per operation is enough.
Faults == {"none", "build", "grep", "rm", "run", "dbup", "kill", "rm_f", "mig", "script"}
Oracles == [fault : Faults, free : Ports]

\* The result of a function of db.py: the containers afterwards, the exception
\* raised ("none" if it returned), its stderr, the value returned, the log.
\* `tool` is the exit of the migration tool, when the function ran it.
NoTool == [ran |-> FALSE, rc |-> 0, stderr |-> NoText]
Result(c, e, stderr, val, lg) ==
    [c |-> c, exc |-> e, err |-> stderr, val |-> val, log |-> lg, tool |-> NoTool]

\* db.py:68-71: a port no running container is bound to.
find_free_port(c, o) == o.free
IsFreePort(c, port) == \A n \in Names : c[n].status = "running" => n[2] # port

\* db.py:149-161. The `except` clause also receives the failure of `docker rm`.
remove_existing_container(c, name, o) ==
    LET grep == docker_ps_grep(c, name, o.fault = "grep") IN
    IF grep # 0
    THEN IF grep > 1
         THEN Result(c, "CalledProcessError", NoText, NoConn, <<"docker ps | grep">>)
         ELSE Result(c, "none", NoText, NoConn, <<"docker ps | grep">>)
    ELSE LET rm == docker_rm(c, name, o.fault = "rm")
             ran == run_and_log(rm.rc, rm.stderr) IN
         IF ran.exc # "none"
         THEN IF rm.rc > 1
              THEN Result(rm.c, ran.exc, ran.err, NoConn, <<"docker ps | grep", "docker rm">>)
              ELSE Result(rm.c, "none", NoText, NoConn, <<"docker ps | grep", "docker rm">>)
         ELSE Result(rm.c, "none", NoText, NoConn, <<"docker ps | grep", "docker rm">>)

\* The mutant of start_local_database: the object returned carries the port
\* inside the container, not the published one.
start_local_database_container_port(c, project_name, dbname_arg, user_arg, port_arg, password_arg, o) ==
    LET dbname == IF dbname_arg = "None" THEN project_name ELSE dbname_arg
        user == IF user_arg = "None" THEN project_name ELSE user_arg
        build == run_and_log(IF o.fault = "build" THEN 1 ELSE 0, DaemonError) IN
    IF build.exc # "none" THEN Result(c, build.exc, build.err, NoConn, <<"docker build">>)
    ELSE
    LET port == IF port_arg = NoPort THEN find_free_port(c, o) ELSE port_arg
        password == IF password_arg = "None" THEN "random32" ELSE password_arg
        name == container_name(dbname, port)
        removed == remove_existing_container(c, name, o) IN
    IF removed.exc # "none"
    THEN Result(removed.c, removed.exc, removed.err, NoConn, <<"docker build">> \o removed.log)
    ELSE
    LET run == docker_run(removed.c, name, port, o.fault = "run")
        ran == run_and_log(run.rc, run.stderr)
        lg == <<"docker build">> \o removed.log \o <<"docker run">> IN
    IF ran.exc # "none" THEN Result(run.c, ran.exc, ran.err, NoConn, lg)
    ELSE
    LET host == "local address" IN
    IF o.fault = "dbup" THEN Result(run.c, "RuntimeError", NoText, NoConn, lg \o <<"wait for db">>)
    ELSE Result(run.c, "none", NoText, DbConnectionData(host, PG_PORT, dbname, user, password),
                lg \o <<"wait for db">>)

\* db.py:164-219
start_local_database(c, project_name, dbname_arg, user_arg, port_arg, password_arg, o) ==
    LET dbname == IF dbname_arg = "None" THEN project_name ELSE dbname_arg
        user == IF user_arg = "None" THEN project_name ELSE user_arg
        build == run_and_log(IF o.fault = "build" THEN 1 ELSE 0, DaemonError) IN
    IF build.exc # "none" THEN Result(c, build.exc, build.err, NoConn, <<"docker build">>)
    ELSE
    LET port == IF port_arg = NoPort THEN find_free_port(c, o) ELSE port_arg
        password == IF password_arg = "None" THEN "random32" ELSE password_arg
        name == container_name(dbname, port)
        removed == remove_existing_container(c, name, o) IN
    IF removed.exc # "none"
    THEN Result(removed.c, removed.exc, removed.err, NoConn, <<"docker build">> \o removed.log)
    ELSE
    LET run == docker_run(removed.c, name, port, o.fault = "run")
        ran == run_and_log(run.rc, run.stderr)
        lg == <<"docker build">> \o removed.log \o <<"docker run">> IN
    IF ran.exc # "none" THEN Result(run.c, ran.exc, ran.err, NoConn, lg)
    ELSE
    \* db.py:208-213: the address of this machine, by name or 127.0.0.1
    LET host == "local address" IN
    \* _wait_for_db_cluster_to_start(host, port, max_wait_time)
    IF o.fault = "dbup" THEN Result(run.c, "RuntimeError", NoText, NoConn, lg \o <<"wait for db">>)
    ELSE Result(run.c, "none", NoText, DbConnectionData(host, port, dbname, user, password),
                lg \o <<"wait for db">>)

\* The mutant of stop_local_database: every failure of the kill is reported as
\* ContainerDoesNotExistError.
stop_local_database_any_failure(c, conn_data, o) ==
    LET image_name == container_name(conn_data.dbname, conn_data.port)
        kill == docker_kill(c, image_name, o.fault = "kill")
        killed == run_and_log(kill.rc, kill.stderr) IN
    IF killed.exc # "none"
    THEN Result(kill.c, "ContainerDoesNotExistError", killed.err, NoConn, <<"docker kill">>)
    ELSE LET rm == docker_rm_f(kill.c, image_name, o.fault = "rm_f")
             ran == run_and_log(rm.rc, rm.stderr) IN
         Result(rm.c, ran.exc, ran.err, NoConn, <<"docker kill", "docker rm -f">>)

\* db.py:323-340
stop_local_database(c, conn_data, o) ==
    LET image_name == container_name(conn_data.dbname, conn_data.port)
        kill == docker_kill(c, image_name, o.fault = "kill")
        killed == run_and_log(kill.rc, kill.stderr)
        pat == <<Lit("Error response from daemon: Cannot kill container:"), NameTok(image_name),
                 Lit("No such container:"), NameTok(image_name)>> IN
    IF killed.exc # "none"
    THEN IF Strip(killed.err) = pat
         THEN Result(kill.c, "ContainerDoesNotExistError", killed.err, NoConn, <<"docker kill">>)
         ELSE Result(kill.c, killed.exc, killed.err, NoConn, <<"docker kill">>)
    ELSE LET rm == docker_rm_f(kill.c, image_name, o.fault = "rm_f")
             ran == run_and_log(rm.rc, rm.stderr) IN
         Result(rm.c, ran.exc, ran.err, NoConn, <<"docker kill", "docker rm -f">>)

\* ---- the database server, psql, sqitch and the repository's scripts ----
\* The repository's optional files under database/ that db.py looks for.
\* "sqitch.plan" stands for a sqitch plan that has changes to deploy.
RepoFiles == {"migrate", "sqitch", "sqitch.plan", "insert_test_data", "insert_test_data.sql",
              "reset_data", "reset_data.sql"}
Repos == {f \in SUBSET RepoFiles : "sqitch.plan" \in f => "sqitch" \in f}
\* The repositories as far as the start commands look at them.
StartRepos == {f \in Repos : "reset_data" \notin f /\ "reset_data.sql" \notin f}

\* The server a connection reaches: the running container bound to its port.
Reachable(c, conn_data) == \E n \in Names : c[n].status = "running" /\ n[2] = conn_data.port
Target(c, conn_data) == CHOOSE n \in Names : c[n].status = "running" /\ n[2] = conn_data.port
TargetDb(c, conn_data) == c[Target(c, conn_data)].db
WithDb(c, conn_data, db) == [c EXCEPT ![Target(c, conn_data)].db = db]

\* psql exits nonzero when it cannot connect, and zero when a statement fails.
psql_admin(c, conn_data) == IF Reachable(c, conn_data) THEN 0 ELSE 2
psql_conn_string(c, conn_data) ==
    IF Reachable(c, conn_data) /\ TargetDb(c, conn_data).database /\ TargetDb(c, conn_data).user
    THEN 0 ELSE 2
CannotConnect == <<Lit("could not connect to server"), Lit("\n")>>

\* The effects of the SQL and of the scripts on the cluster's contents.
SetupSql(db) == [db EXCEPT !.database = TRUE, !.user = TRUE]
DropDatabase(db) == [db EXCEPT !.database = FALSE, !.deployed = FALSE, !.rows = 0]
DropUser(db) == [db EXCEPT !.user = db.database]
Deploy(db) == [db EXCEPT !.deployed = TRUE]
InsertFixture(db) == IF db.deployed THEN [db EXCEPT !.rows = db.rows + 1] ELSE db
DeleteFixture(db) == IF db.deployed THEN [db EXCEPT !.rows = 0] ELSE db

\* `sqitch --engine pg deploy {sqitch_string}`: an empty plan is an error of
\* the tool, an up-to-date database is not.
sqitch_deploy(c, conn_data, files, o) ==
    IF psql_conn_string(c, conn_data) # 0
    THEN [db |-> FreshDb, rc |-> 2, stderr |-> CannotConnect]
    ELSE LET db == TargetDb(c, conn_data) IN
         IF "sqitch.plan" \notin files
         THEN [db |-> db, rc |-> 2, stderr |-> <<Lit("Nothing to deploy (empty plan)"), Lit("\n")>>]
         ELSE IF db.deployed THEN [db |-> db, rc |-> 0, stderr |-> NoText]
         ELSE IF o.fault # "mig" THEN [db |-> Deploy(db), rc |-> 0, stderr |-> NoText]
         ELSE [db |-> db, rc |-> 1, stderr |-> <<Lit("Deploy failed"), Lit("\n")>>]

\* A script of the repository: it fails when it cannot reach its database or
\* for a reason of its own.
script(c, conn_data, failed, needs_schema) ==
    IF failed \/ psql_conn_string(c, conn_data) # 0 THEN 1
    ELSE IF needs_schema /\ ~TargetDb(c, conn_data).deployed THEN 1
    ELSE 0
ScriptFailed == <<Lit("script failed"), Lit("\n")>>

\* The mutant of run_migrations: every failure of sqitch is passed over.
run_migrations_swallow_all(c, conn_data, files, o) ==
    IF "migrate" \in files
    THEN LET rc == script(c, conn_data, o.fault = "mig", FALSE)
             ran == run_and_log(rc, ScriptFailed)
             c2 == IF rc = 0 THEN WithDb(c, conn_data, Deploy(TargetDb(c, conn_data))) ELSE c IN
         Result(c2, ran.exc, ran.err, NoConn, <<"database/migrate">>)
    ELSE IF "sqitch" \notin files
    THEN Result(c, "RuntimeError", NoText, NoConn, <<>>)
    ELSE LET sq == sqitch_deploy(c, conn_data, files, o)
             c2 == IF sq.rc = 0 THEN WithDb(c, conn_data, sq.db) ELSE c IN
         [Result(c2, "none", NoText, NoConn, <<"sqitch deploy">>)
            EXCEPT !.tool = [ran |-> TRUE, rc |-> sq.rc, stderr |-> sq.stderr]]

\* The mutant of run_migrations: sqitch is preferred to the migrate script.
run_migrations_sqitch_first(c, conn_data, files, o) ==
    IF "sqitch" \in files
    THEN LET sq == sqitch_deploy(c, conn_data, files, o)
             ran == run_and_log(sq.rc, sq.stderr)
             c2 == IF sq.rc = 0 THEN WithDb(c, conn_data, sq.db) ELSE c
             exit == [ran |-> TRUE, rc |-> sq.rc, stderr |-> sq.stderr] IN
         IF ran.exc # "none" /\ Strip(ran.err) # <<Lit("Nothing to deploy (empty plan)")>>
         THEN [Result(c2, ran.exc, ran.err, NoConn, <<"sqitch deploy">>) EXCEPT !.tool = exit]
         ELSE [Result(c2, "none", NoText, NoConn, <<"sqitch deploy">>) EXCEPT !.tool = exit]
    ELSE IF "migrate" \in files
    THEN LET rc == script(c, conn_data, o.fault = "mig", FALSE)
             ran == run_and_log(rc, ScriptFailed)
             c2 == IF rc = 0 THEN WithDb(c, conn_data, Deploy(TargetDb(c, conn_data))) ELSE c IN
         Result(c2, ran.exc, ran.err, NoConn, <<"database/migrate">>)
    ELSE Result(c, "RuntimeError", NoText, NoConn, <<>>)

\* db.py:74-98
run_migrations(c, conn_data, files, o) ==
    IF "migrate" \in files
    THEN LET rc == script(c, conn_data, o.fault = "mig", FALSE)
             ran == run_and_log(rc, ScriptFailed)
             c2 == IF rc = 0 THEN WithDb(c, conn_data, Deploy(TargetDb(c, conn_data))) ELSE c IN
         Result(c2, ran.exc, ran.err, NoConn, <<"database/migrate">>)
    ELSE IF "sqitch" \notin files
    THEN Result(c, "RuntimeError", NoText, NoConn, <<>>)
    ELSE LET sq == sqitch_deploy(c, conn_data, files, o)
             ran == run_and_log(sq.rc, sq.stderr)
             c2 == IF sq.rc = 0 THEN WithDb(c, conn_data, sq.db) ELSE c
             exit == [ran |-> TRUE, rc |-> sq.rc, stderr |-> sq.stderr] IN
         IF ran.exc # "none"
         THEN IF Strip(ran.err) = <<Lit("Nothing to deploy (empty plan)")>>
              THEN [Result(c2, "none", NoText, NoConn, <<"sqitch deploy">>) EXCEPT !.tool = exit]
              ELSE [Result(c2, ran.exc, ran.err, NoConn, <<"sqitch deploy">>) EXCEPT !.tool = exit]
         ELSE [Result(c2, "none", NoText, NoConn, <<"sqitch deploy">>) EXCEPT !.tool = exit]

\* db.py:246-266. The setup SQL, the repository's or the template's, creates
\* the user and the database.
setup_db(c, conn_data, files, o) ==
    LET ran == run_and_log(psql_admin(c, conn_data), CannotConnect) IN
    IF ran.exc # "none" THEN Result(c, ran.exc, ran.err, NoConn, <<"psql setup.sql">>)
    ELSE LET c2 == WithDb(c, conn_data, SetupSql(TargetDb(c, conn_data)))
             mig == run_migrations(c2, conn_data, files, o) IN
         [mig EXCEPT !.log = <<"psql setup.sql">> \o mig.log]

\* The mutant of insert_test_data: the SQL file is preferred to the script, and
\* a repository with neither is passed over in silence.
insert_test_data_sql_first(c, conn_data, files, o) ==
    IF "insert_test_data.sql" \in files
    THEN LET rc == psql_conn_string(c, conn_data)
             ran == run_and_log(rc, CannotConnect)
             c2 == IF rc = 0 THEN WithDb(c, conn_data, InsertFixture(TargetDb(c, conn_data))) ELSE c IN
         Result(c2, ran.exc, ran.err, NoConn, <<"psql insert_test_data.sql">>)
    ELSE IF "insert_test_data" \in files
    THEN LET rc == script(c, conn_data, o.fault = "script", TRUE)
             ran == run_and_log(rc, ScriptFailed)
             c2 == IF rc = 0 THEN WithDb(c, conn_data, InsertFixture(TargetDb(c, conn_data))) ELSE c IN
         Result(c2, ran.exc, ran.err, NoConn, <<"database/insert_test_data">>)
    ELSE Result(c, "none", NoText, NoConn, <<>>)

\* db.py:269-293
insert_test_data(c, conn_data, files, o) ==
    IF "insert_test_data" \in files
    THEN LET rc == script(c, conn_data, o.fault = "script", TRUE)
             ran == run_and_log(rc, ScriptFailed)
             c2 == IF rc = 0 THEN WithDb(c, conn_data, InsertFixture(TargetDb(c, conn_data))) ELSE c IN
         Result(c2, ran.exc, ran.err, NoConn, <<"database/insert_test_data">>)
    ELSE IF "insert_test_data.sql" \in files
    THEN LET rc == psql_conn_string(c, conn_data)
             ran == run_and_log(rc, CannotConnect)
             c2 == IF rc = 0 THEN WithDb(c, conn_data, InsertFixture(TargetDb(c, conn_data))) ELSE c IN
         Result(c2, ran.exc, ran.err, NoConn, <<"psql insert_test_data.sql">>)
    ELSE Result(c, "ValueError", NoText, NoConn, <<>>)

\* The mutant of reset_data: the default drops the database and the user and
\* does not set the database up again.
reset_data_no_setup(c, conn_data, files, o) ==
    IF "reset_data" \in files
    THEN LET rc == script(c, conn_data, o.fault = "script", TRUE)
             ran == run_and_log(rc, ScriptFailed)
             c2 == IF rc = 0 THEN WithDb(c, conn_data, DeleteFixture(TargetDb(c, conn_data))) ELSE c IN
         Result(c2, ran.exc, ran.err, NoConn, <<"database/reset_data">>)
    ELSE LET ran == run_and_log(psql_admin(c, conn_data), CannotConnect) IN
         IF ran.exc # "none" THEN Result(c, ran.exc, ran.err, NoConn, <<"psql drop database">>)
         ELSE Result(WithDb(c, conn_data, DropUser(DropDatabase(TargetDb(c, conn_data)))),
                     "none", NoText, NoConn, <<"psql drop database", "psql drop user">>)

\* db.py:296-320. Line 305 tests repo_reset_data_path, as line 302 does.
reset_data(c, conn_data, files, o) ==
    LET repo_reset_data_path == "reset_data"
        repo_reset_data_sql_path == "reset_data.sql" IN
    IF repo_reset_data_path \in files
    THEN LET rc == script(c, conn_data, o.fault = "script", TRUE)
             ran == run_and_log(rc, ScriptFailed)
             c2 == IF rc = 0 THEN WithDb(c, conn_data, DeleteFixture(TargetDb(c, conn_data))) ELSE c IN
         Result(c2, ran.exc, ran.err, NoConn, <<"database/reset_data">>)
    ELSE IF repo_reset_data_path \in files
    THEN LET rc == script(c, conn_data, o.fault = "script", TRUE)
             ran == run_and_log(rc, ScriptFailed) IN
         IF ran.exc # "none" THEN Result(c, ran.exc, ran.err, NoConn, <<"database/reset_data">>)
         ELSE IF repo_reset_data_sql_path \notin files
         THEN Result(c, "FileNotFoundError", NoText, NoConn, <<"database/reset_data">>)
         ELSE LET c2 == WithDb(c, conn_data, DeleteFixture(TargetDb(c, conn_data)))
                  rc2 == psql_conn_string(c2, conn_data)
                  ran2 == run_and_log(rc2, CannotConnect) IN
              Result(c2, ran2.exc, ran2.err, NoConn, <<"database/reset_data", "psql reset_data.sql">>)
    ELSE LET ran == run_and_log(psql_admin(c, conn_data), CannotConnect) IN
         IF ran.exc # "none" THEN Result(c, ran.exc, ran.err, NoConn, <<"psql drop database">>)
         ELSE LET c2 == WithDb(c, conn_data, DropUser(DropDatabase(TargetDb(c, conn_data))))
                  set == setup_db(c2, conn_data, files, o) IN
              [set EXCEPT !.log = <<"psql drop database", "psql drop user">> \o set.log]

\* ---- the commands of the CLI (db.py:347-425) ----
Args(conn_data, port) ==
    [conn_data |-> conn_data, port |-> port, host |-> "localhost", password |-> "None",
     project_name |-> ProjectName]
ArgConns == {DbConnectionData("127.0.0.1", PG_PORT, ProjectName, ProjectName, "pw")}
ArgPorts == Ports \cup {NoPort}
AllArgs == {Args(cd, NoPort) : cd \in ArgConns} \cup {Args(NoConn, p) : p \in ArgPorts}

\* db.py:404-425: `if not args.conn_data: args.conn_data = DbConnectionData(...)`
conn_data_or_default(args) ==
    IF args.conn_data = NoConn
    THEN DbConnectionData(args.host, args.port, args.project_name, args.project_name, args.password)
    ELSE args.conn_data

\* db.py:347-352
start_local_database_main(c, args, o) ==
    LET r == start_local_database(c, args.project_name, "None", "None", args.port, "None", o) IN
    IF r.exc # "none" THEN r ELSE [r EXCEPT !.log = r.log \o <<"print conn_data">>]

\* db.py:370-382
start_local_test_database_main(c, args, files, o) ==
    LET r == IF args.conn_data # NoConn
             THEN start_local_database(c, args.project_name, args.conn_data.dbname,
                                       args.conn_data.user, args.conn_data.port,
                                       args.conn_data.password, o)
             ELSE start_local_database(c, args.project_name, "None", "None", args.port, "None", o) IN
    IF r.exc # "none" THEN r
    ELSE
    LET set == setup_db(r.c, r.val, files, o) IN
    IF set.exc # "none" THEN [set EXCEPT !.log = r.log \o set.log]
    ELSE
    LET ins == insert_test_data(set.c, r.val, files, o) IN
    IF ins.exc # "none" THEN [ins EXCEPT !.log = r.log \o set.log \o ins.log, !.tool = set.tool]
    ELSE [ins EXCEPT !.log = r.log \o set.log \o ins.log \o <<"print conn_data">>,
                     !.val = r.val, !.tool = set.tool]

\* What each operation leaves to the environment.
StartOracles(args) ==
    {o \in Oracles : /\ o.fault \in {"none", "build", "grep", "rm", "run", "dbup"}
                     /\ (args.conn_data # NoConn \/ args.port # NoPort) => o.free = PG_PORT}
StartTestOracles(args) ==
    {o \in Oracles : /\ o.fault \in {"none", "build", "grep", "rm", "run", "dbup", "mig", "script"}
                     /\ (args.conn_data # NoConn \/ args.port # NoPort) => o.free = PG_PORT}
StopOracles == {o \in Oracles : o.fault \in {"none", "kill", "rm_f"} /\ o.free = PG_PORT}
DataOracles == {o \in Oracles : o.fault \in {"none", "mig", "script"} /\ o.free = PG_PORT}

StatusOf(c, name) == IF name \in DOMAIN c THEN c[name].status ELSE "none"
\* An operation as called: its name, its connection data, the container name it
\* is about with that container's status before the call, and the step the
\* environment made fail.
Operation(name, conn_data, target, pre, o) ==
    [name |-> name, conn |-> conn_data, target |-> target, pre |-> pre, fault |-> o.fault]
RowsWithinBound(c) == \A n \in Names : c[n].db.rows <= MaxRows

\* The scenario of tests/test_test_db.py:23-40 on one instance: setup_db (1),
\* insert_test_data giving one row (2), reset_data (3), insert_test_data (4).
NoScenario == [stage |-> 0, port |-> NoPort]
ScenarioAfter(name, conn_data, r) ==
    LET ok == r.exc = "none"
        rows == IF Reachable(r.c, conn_data) THEN TargetDb(r.c, conn_data).rows ELSE 0 IN
    IF ~ok THEN NoScenario
    ELSE IF name = "setup_db" THEN [stage |-> 1, port |-> conn_data.port]
    ELSE IF name = "insert_test_data" /\ scen = [stage |-> 1, port |-> conn_data.port]
    THEN IF rows = 1 THEN [stage |-> 2, port |-> conn_data.port] ELSE NoScenario
    ELSE IF name = "reset_data" /\ scen = [stage |-> 2, port |-> conn_data.port]
    THEN [stage |-> 3, port |-> conn_data.port]
    ELSE IF name = "insert_test_data" /\ scen = [stage |-> 3, port |-> conn_data.port]
    THEN [stage |-> 4, port |-> conn_data.port]
    ELSE NoScenario

\* The state after an operation that ended as r.
Finish(name, conn_data, target, o, r) ==
    /\ RowsWithinBound(r.c)
    /\ containers' = r.c
    /\ op' = Operation(name, conn_data, target, StatusOf(containers, target), o)
    /\ exc' = r.exc
    /\ err' = r.err
    /\ ret' = r.val
    /\ log' = r.log
    /\ tool' = r.tool
    /\ scen' = ScenarioAfter(name, IF r.val # NoConn THEN r.val ELSE conn_data, r)
    /\ UNCHANGED <<repo, notLifecycle, kvars>>

\* ---- one action per command ----
\* The container name a start command will use.
StartName(args, o) ==
    container_name(IF args.conn_data # NoConn THEN args.conn_data.dbname ELSE args.project_name,
                   IF args.conn_data # NoConn THEN args.conn_data.port
                   ELSE IF args.port = NoPort THEN find_free_port(containers, o) ELSE args.port)

\* `freenome-build db start-local`
StartLocal ==
    \E port \in ArgPorts : \E o \in StartOracles(Args(NoConn, port)) :
        LET args == Args(NoConn, port) IN
        /\ port = NoPort => IsFreePort(containers, o.free)
        /\ Finish("start_local", NoConn, StartName(args, o), o,
                  start_local_database_main(containers, args, o))

\* `freenome-build db start-local-test-db`
StartLocalTestDb ==
    \E args \in AllArgs : \E o \in StartTestOracles(args) :
        \* a machine drives one backend: no pod is around where docker is used
        /\ \A q \in PodIds : pods[q] = NoPod
        /\ (args.conn_data = NoConn /\ args.port = NoPort) => IsFreePort(containers, o.free)
        /\ Finish("start_local_test_db", NoConn, StartName(args, o), o,
                  start_local_test_database_main(containers, args, repo, o))

\* `freenome-build db setup-db` (db.py:404-407)
SetupDb ==
    \E args \in AllArgs, o \in DataOracles :
        LET conn_data == conn_data_or_default(args) IN
        /\ conn_data.dbname \in DbNames
        /\ Finish("setup_db", conn_data, NoName, o, setup_db(containers, conn_data, repo, o))

\* `freenome-build db insert-test-data` (db.py:410-413)
InsertTestData ==
    \E args \in AllArgs, o \in DataOracles :
        LET conn_data == conn_data_or_default(args) IN
        /\ conn_data.dbname \in DbNames
        /\ Finish("insert_test_data", conn_data, NoName, o, insert_test_data(containers, conn_data, repo, o))

\* `freenome-build db reset-data` (db.py:416-419)
ResetData ==
    \E args \in AllArgs, o \in DataOracles :
        LET conn_data == conn_data_or_default(args) IN
        /\ conn_data.dbname \in DbNames
        /\ Finish("reset_data", conn_data, NoName, o, reset_data(containers, conn_data, repo, o))

\* `freenome-build db stop-local` (db.py:422-425)
StopLocal ==
    \E args \in AllArgs, o \in StopOracles :
        LET conn_data == conn_data_or_default(args) IN
        /\ conn_data.dbname \in DbNames
        /\ Finish("stop_local", conn_data, container_name(conn_data.dbname, conn_data.port), o,
                  stop_local_database(containers, conn_data, o))

NoOperation == [name |-> "none", conn |-> NoConn, target |-> NoName, pre |-> "none", fault |-> "none"]

\* Environment: a running container stops (its server exits, or someone stops it).
ContainerExits ==
    /\ \E n \in Names :
         /\ containers[n].status = "running"
         /\ containers' = [containers EXCEPT ![n] = [status |-> "exited", db |-> FreshDb]]
    /\ op' = [NoOperation EXCEPT !.name = "container exits"]
    /\ exc' = "none" /\ err' = NoText /\ ret' = NoConn /\ log' = <<>> /\ tool' = NoTool
    /\ scen' = NoScenario
    /\ UNCHANGED <<repo, notLifecycle, kvars>>

Init ==
    /\ containers = [n \in Names |-> NoContainer]
    /\ op = NoOperation
    /\ exc = "none" /\ err = NoText /\ ret = NoConn /\ log = <<>> /\ tool = NoTool
    /\ scen = NoScenario
    /\ repo \in StartRepos
    \* neither wait is running on its own
    /\ cpc = "idle" /\ attempts = 0 /\ last_timestamp = 0 /\ events = <<>>
    /\ cexc = "none" /\ checks = 0 /\ podPhase = "Pending" /\ podEvents = <<>>
    /\ wpc = "idle" /\ max_wait_time = 0 /\ recheck_interval = 1 /\ iter = 0
    /\ notReady = 0 /\ connects = 0 /\ sleeps = 0 /\ elapsed = 0
    /\ given = NoInput /\ parsed = NoConn /\ conn_str = None /\ sqitch_str = None
    /\ pexc = "none" /\ pdone = {}
    /\ pods = [p \in PodIds |-> NoPod] /\ kargs = NoKArgs /\ ret_pod = "None"

Next ==
    \/ StartLocal
    \/ StartLocalTestDb
    \/ StopLocal
    \/ ContainerExits

Spec == Init /\ [][Next]_vars

\* The data operations on one instance, as start_local_database leaves it.
InitData ==
    /\ containers = [n \in Names |-> IF n = container_name(ProjectName, PG_PORT)
                                      THEN [status |-> "running", db |-> FreshDb]
                                      ELSE NoContainer]
    /\ op = NoOperation
    /\ exc = "none" /\ err = NoText /\ ret = NoConn /\ log = <<>> /\ tool = NoTool
    /\ scen = NoScenario
    /\ repo \in Repos
    \* neither wait is running on its own
    /\ cpc = "idle" /\ attempts = 0 /\ last_timestamp = 0 /\ events = <<>>
    /\ cexc = "none" /\ checks = 0 /\ podPhase = "Pending" /\ podEvents = <<>>
    /\ wpc = "idle" /\ max_wait_time = 0 /\ recheck_interval = 1 /\ iter = 0
    /\ notReady = 0 /\ connects = 0 /\ sleeps = 0 /\ elapsed = 0
    /\ given = NoInput /\ parsed = NoConn /\ conn_str = None /\ sqitch_str = None
    /\ pexc = "none" /\ pdone = {}
    /\ pods = [p \in PodIds |-> NoPod] /\ kargs = NoKArgs /\ ret_pod = "None"

NextData ==
    \/ SetupDb
    \/ InsertTestData
    \/ ResetData
    \/ ContainerExits

SpecData == InitData /\ [][NextData]_vars

(***************************************************************************)
(* _wait_for_container                                                     *)
(***************************************************************************)
MAX_CONTAINER_CHECKS == 600

\* History counter cap: one check more than the documented maximum is enough
\* to see whether the documented maximum is respected.
ObservedChecks == MAX_CONTAINER_CHECKS + 1

\* Texts are sequences of tokens; `'x' in text` is token membership.
Contains(text, token) == \E k \in DOMAIN text : text[k] = token

PodPhases == {"Pending", "Running"}
EventMessages == { <<"Pulling", "image">>, <<"Error", "ErrImagePull">> }

\* The output of `kubectl get pod {pod_id}`: a header line and the pod's line.
pod_status_cmd(phase) == <<"NAME", "READY", "STATUS", "pod", IF phase = "Running" THEN "1/1" ELSE "0/1", phase>>

\* The 'items' of `kubectl get events --sort-by=.metadata.creationTimestamp`.
event_cmd(evs) == evs

\* db.py:118-122: the state on entry to the loop, for a pod just created.
InitContainer ==
    /\ cpc = "loop"
    /\ attempts = 0
    /\ last_timestamp = 0
    /\ events = <<>>
    /\ cexc = "none"
    /\ checks = 0
    /\ podPhase = "Pending"
    /\ podEvents = <<>>
    \* _wait_for_db_cluster_to_start is not running
    /\ wpc = "idle" /\ max_wait_time = 0 /\ recheck_interval = 1 /\ iter = 0
    /\ notReady = 0 /\ connects = 0 /\ sleeps = 0 /\ elapsed = 0
    /\ given = NoInput /\ parsed = NoConn /\ conn_str = None /\ sqitch_str = None
    /\ pexc = "none" /\ pdone = {}
    /\ pods = [p \in PodIds |-> NoPod] /\ kargs = NoKArgs /\ ret_pod = "None"
    \* the lifecycle is not running
    /\ containers = [n \in Names |-> NoContainer] /\ op = NoOperation
    /\ exc = "none" /\ err = NoText /\ ret = NoConn /\ log = <<>> /\ tool = NoTool
    /\ scen = NoScenario /\ repo = {}

\* db.py:131-137: the first event whose message contains 'Error' raises.
HasErrorEvent(evs) == \E k \in DOMAIN evs : Contains(evs[k].message, "Error")

\* db.py:123-128 and 141: the loop test, then the pod status check.
\* `attempts` is compared but assigned nowhere in the loop.
WaitCheckStatus ==
    /\ cpc = "loop"
    /\ IF attempts < MAX_CONTAINER_CHECKS
       THEN /\ checks < ObservedChecks
            /\ checks' = checks + 1
            /\ \/ /\ Contains(pod_status_cmd(podPhase), "Running")
                  /\ cpc' = "returned"
                  /\ cexc' = cexc
               \/ /\ ~Contains(pod_status_cmd(podPhase), "Running")
                  /\ cpc' = "events"
                  /\ cexc' = cexc
               \/ \* kubectl exits nonzero: check_output raises
                  /\ cpc' = "raised"
                  /\ cexc' = "CalledProcessError"
       ELSE /\ cpc' = "raised"
            /\ cexc' = "RuntimeError: failed to start after MAX_CONTAINER_CHECKS seconds"
            /\ checks' = checks
    /\ UNCHANGED <<attempts, last_timestamp, events, podPhase, podEvents, notContainer>>

\* The mutant of WaitFetchEvents: an event with 'Error' is logged, not raised.
WaitFetchEventsNoRaise ==
    /\ cpc = "events"
    /\ events' = event_cmd(podEvents)
    /\ last_timestamp' = IF Len(events') > 0
                         THEN events'[Len(events')].firstTimestamp
                         ELSE last_timestamp
    /\ cpc' = "loop"
    /\ UNCHANGED <<attempts, cexc, checks, podPhase, podEvents, notContainer>>

\* db.py:130-140: fetch the events, raise on an 'Error' message, remember the
\* last timestamp, sleep one second and go round the loop.
WaitFetchEvents ==
    /\ cpc = "events"
    /\ \/ /\ events' = event_cmd(podEvents)
          /\ IF HasErrorEvent(events')
             THEN /\ cpc' = "raised"
                  /\ cexc' = "RuntimeError: Container failed to start"
                  /\ last_timestamp' = last_timestamp
             ELSE /\ cpc' = "loop"
                  /\ cexc' = cexc
                  /\ last_timestamp' = IF Len(events') > 0
                                       THEN events'[Len(events')].firstTimestamp
                                       ELSE last_timestamp
       \/ \* kubectl exits nonzero: check_output raises
          /\ cpc' = "raised"
          /\ cexc' = "CalledProcessError"
          /\ UNCHANGED <<events, last_timestamp>>
    /\ UNCHANGED <<attempts, checks, podPhase, podEvents, notContainer>>

\* Environment: the pod changes phase while the wait is running.
PodPhaseChanges ==
    /\ cpc \in {"loop", "events"}
    /\ \E p \in PodPhases \ {podPhase} : podPhase' = p
    /\ UNCHANGED <<cpc, attempts, last_timestamp, events, cexc, checks, podEvents, notContainer>>

\* Environment: the cluster records one more event for the pod.
PodEventOccurs ==
    /\ cpc \in {"loop", "events"}
    /\ Len(podEvents) < MaxEvents
    /\ \E m \in EventMessages :
         podEvents' = Append(podEvents, [firstTimestamp |-> Len(podEvents) + 1, message |-> m])
    /\ UNCHANGED <<cpc, attempts, last_timestamp, events, cexc, checks, podPhase, notContainer>>

(***************************************************************************)
(* _wait_for_db_cluster_to_start                                           *)
(***************************************************************************)
\* The mutant of AttemptBudget: the range without its + 1.
AttemptBudgetNoPlusOne(mwt, ri) == mwt \div ri

\* db.py:103: range(int(max_wait_time/recheck_interval)+1), times in ticks.
AttemptBudget(mwt, ri) == (mwt \div ri) + 1

\* db.py:101-102: the call, with its parameters and the probe's behaviour.
InitDbWait ==
    /\ wpc = "connect"
    /\ max_wait_time \in 0..MaxWaitTime
    /\ recheck_interval \in 1..MaxInterval
    /\ iter = 0
    /\ notReady \in -1..MaxNotReady
    /\ connects = 0
    /\ sleeps = 0
    /\ elapsed = 0
    /\ given = NoInput /\ parsed = NoConn /\ conn_str = None /\ sqitch_str = None
    /\ pexc = "none" /\ pdone = {}
    /\ pods = [p \in PodIds |-> NoPod] /\ kargs = NoKArgs /\ ret_pod = "None"
    \* _wait_for_container is not running
    /\ cpc = "idle" /\ attempts = 0 /\ last_timestamp = 0 /\ events = <<>>
    /\ cexc = "none" /\ checks = 0 /\ podPhase = "Pending" /\ podEvents = <<>>
    \* the lifecycle is not running
    /\ containers = [n \in Names |-> NoContainer] /\ op = NoOperation
    /\ exc = "none" /\ err = NoText /\ ret = NoConn /\ log = <<>> /\ tool = NoTool
    /\ scen = NoScenario /\ repo = {}

\* Environment: whether the connection attempt made after `made` earlier ones
\* finds the database up.
ProbeSucceeds(made) == notReady # -1 /\ made >= notReady

\* db.py:103-110 and 114: the loop test and one psycopg2.connect, which takes
\* some time and either succeeds or raises OperationalError.
DbWaitConnect ==
    /\ wpc = "connect"
    /\ IF iter < AttemptBudget(max_wait_time, recheck_interval)
       THEN /\ connects' = connects + 1
            /\ \E d \in 0..MaxConnectTime : elapsed' = elapsed + d
            /\ wpc' = IF ProbeSucceeds(connects) THEN "returned" ELSE "sleep"
       ELSE /\ wpc' = "raised"
            /\ UNCHANGED <<connects, elapsed>>
    /\ UNCHANGED <<max_wait_time, recheck_interval, iter, notReady, sleeps, notDbWait>>

\* db.py:111-112: time.sleep(recheck_interval); continue.
DbWaitSleep ==
    /\ wpc = "sleep"
    /\ sleeps' = sleeps + 1
    /\ elapsed' = elapsed + recheck_interval
    /\ iter' = iter + 1
    /\ wpc' = "connect"
    /\ UNCHANGED <<max_wait_time, recheck_interval, notReady, connects, notDbWait>>

(***************************************************************************)
(* Specifications                                                          *)
(***************************************************************************)
NextContainer ==
    \/ WaitCheckStatus
    \/ WaitFetchEvents
    \/ PodPhaseChanges
    \/ PodEventOccurs

SpecContainer == InitContainer /\ [][NextContainer]_vars

NextDbWait ==
    \/ DbWaitConnect
    \/ DbWaitSleep

SpecDbWait == InitDbWait /\ [][NextDbWait]_vars

(***************************************************************************)
(* The lifecycle on the kubernetes backend (db.py:144-146, 222-243,        *)
(* 343-344, 355-367, 385-401, 428-437)                                     *)
(***************************************************************************)
PodIps == {"10.0.0.1", "10.0.0.2"}
KFaults == {"none", "create", "podwait", "describe", "dbup", "mig", "script", "lookup", "delete"}
\* What the environment decides: the command that fails, and the id and the
\* address the cluster gives to a new pod.
KOracles == [fault : KFaults, pod : PodIds, ip : PodIps]
Exists(ps, pod_id) == pod_id \in PodIds /\ ps[pod_id].phase # "none"
KResult(ps, e, stderr, val, pod_id, lg) ==
    [pods |-> ps, exc |-> e, err |-> stderr, val |-> val, pod_id |-> pod_id, log |-> lg,
     tool |-> NoTool]

\* db.py:233-234: `kubectl create -f ... | sed ...` through the shell. The exit
\* status of the pipeline is sed's, so a failing kubectl raises nothing and
\* leaves the output, the pod id, empty.
kubectl_create(ps, o) ==
    IF o.fault = "create" THEN [pods |-> ps, out |-> ""]
    ELSE [pods |-> [ps EXCEPT ![o.pod] =
                       [phase |-> IF o.fault = "podwait" THEN "Failed" ELSE "Running",
                        ip |-> o.ip, db |-> FreshDb]],
          out |-> o.pod]

\* db.py:117-141 by its outcome. `kubectl get pod ` with an empty id lists every
\* pod. A pod that is not running and has no 'Error' event is polled for ever.
wait_for_container(ps, pod_id) ==
    IF pod_id = ""
    THEN IF \E q \in PodIds : ps[q].phase = "Running" THEN "returned" ELSE "diverges"
    ELSE IF ps[pod_id].phase = "Running" THEN "returned" ELSE "raised"

\* db.py:239-240: `kubectl describe pod {pod_id} | grep IP | sed ...`, again a
\* pipeline. With an empty id every pod is described.
pod_ip(ps, pod_id, o) ==
    IF o.fault = "describe" THEN ""
    ELSE IF pod_id # "" THEN ps[pod_id].ip
    ELSE IF Cardinality({q \in PodIds : Exists(ps, q)}) = 1
    THEN ps[CHOOSE q \in PodIds : Exists(ps, q)].ip
    ELSE "several lines"

\* db.py:222-243
start_k8s_database(ps, project_name, dbname_arg, user_arg, password_arg, o) ==
    LET dbname == IF dbname_arg = "None" THEN project_name ELSE dbname_arg
        user == IF user_arg = "None" THEN project_name ELSE user_arg
        created == kubectl_create(ps, o)
        pod_id == created.out
        waited == wait_for_container(created.pods, pod_id) IN
    IF waited = "diverges" THEN KResult(created.pods, "diverges", NoText, NoConn, "None", <<>>)
    ELSE IF waited = "raised"
    THEN KResult(created.pods, "RuntimeError", NoText, NoConn, "None",
                 <<"kubectl create", "kubectl get pod">>)
    ELSE LET host == pod_ip(created.pods, pod_id, o) IN
         KResult(created.pods, "none", NoText,
                 DbConnectionData(host, PG_PORT, dbname, user, password_arg), pod_id,
                 <<"kubectl create", "kubectl get pod", "kubectl describe pod">>)

\* db.py:144-146: the names of the pods with this address, as kubectl prints
\* them; nothing when there is none.
get_pod_id_from_pod_ip(ps, ip, o) ==
    IF o.fault = "lookup" THEN [exc |-> "CalledProcessError", out |-> ""]
    ELSE IF \E q \in PodIds : Exists(ps, q) /\ ps[q].ip = ip
    THEN [exc |-> "none", out |-> CHOOSE q \in PodIds : Exists(ps, q) /\ ps[q].ip = ip]
    ELSE [exc |-> "none", out |-> ""]

NotFound == <<Lit("Error from server (NotFound)"), Lit("\n")>>
\* db.py:343-344
stop_k8s_database(ps, pod_id, o) ==
    LET rc == IF o.fault = "delete" \/ ~Exists(ps, pod_id) THEN 1 ELSE 0
        ran == run_and_log(rc, IF o.fault = "delete" THEN DaemonError ELSE NotFound) IN
    KResult(IF rc = 0 THEN [ps EXCEPT ![pod_id] = NoPod] ELSE ps, ran.exc, ran.err, NoConn,
            "None", <<"kubectl delete pod">>)

\* ---- the kubernetes commands of the CLI ----
KArgs(conn_data, pod_id, host) ==
    [conn_data |-> conn_data, pod_id |-> pod_id, host |-> host, project_name |-> ProjectName]
KArgConns == {DbConnectionData(ip, PG_PORT, "app", "app", "pw") : ip \in PodIps}
KStartArgs == {KArgs(cd, "None", "localhost") : cd \in KArgConns \cup {NoConn}}
KStopArgs ==
    {KArgs(cd, pod_id, host) : cd \in KArgConns \cup {NoConn}, pod_id \in PodIds \cup {"None"},
                               host \in PodIps \cup {"localhost"}}

\* db.py:355-367. start_k8s_database has no parameter `port`, so the call made
\* for a connection string raises TypeError before anything runs.
start_k8s_database_main(ps, args, o) ==
    IF args.conn_data # NoConn THEN KResult(ps, "TypeError", NoText, NoConn, "None", <<>>)
    ELSE LET r == start_k8s_database(ps, args.project_name, "None", "None", "None", o) IN
         IF r.exc # "none" THEN r
         ELSE [r EXCEPT !.log = r.log \o <<"print conn_data", "print pod_id">>]

\* The server of a pod as psql and sqitch reach it through conn_data, and the
\* pods after the commands run there.
PodView(ps, host) ==
    [n \in Names |->
        IF n = container_name(ProjectName, PG_PORT)
           /\ \E q \in PodIds : ps[q].phase = "Running" /\ ps[q].ip = host
        THEN [status |-> "running",
              db |-> ps[CHOOSE q \in PodIds : ps[q].phase = "Running" /\ ps[q].ip = host].db]
        ELSE NoContainer]
PodsAfter(ps, host, c) ==
    [q \in PodIds |-> IF ps[q].phase = "Running" /\ ps[q].ip = host
                      THEN [ps[q] EXCEPT !.db = c[container_name(ProjectName, PG_PORT)].db]
                      ELSE ps[q]]

\* db.py:385-401
start_k8s_test_database_main(ps, args, files, o) ==
    IF args.conn_data # NoConn THEN KResult(ps, "TypeError", NoText, NoConn, "None", <<>>)
    ELSE
    LET r == start_k8s_database(ps, args.project_name, "None", "None", "None", o) IN
    IF r.exc # "none" THEN r
    ELSE
    \* _wait_for_db_cluster_to_start(conn_data.host, conn_data.port)
    LET host == r.val.host
        up == o.fault # "dbup" /\ \E q \in PodIds : r.pods[q].phase = "Running" /\ r.pods[q].ip = host
        lg == r.log \o <<"wait for db">> IN
    IF ~up THEN KResult(r.pods, "RuntimeError", NoText, NoConn, "None", lg)
    ELSE
    LET set == setup_db(PodView(r.pods, host), r.val, files, o) IN
    IF set.exc # "none"
    THEN [KResult(PodsAfter(r.pods, host, set.c), set.exc, set.err, NoConn, "None", lg \o set.log)
            EXCEPT !.tool = set.tool]
    ELSE
    LET ins == insert_test_data(set.c, r.val, files, o) IN
    IF ins.exc # "none"
    THEN [KResult(PodsAfter(r.pods, host, ins.c), ins.exc, ins.err, NoConn, "None",
                  lg \o set.log \o ins.log) EXCEPT !.tool = set.tool]
    ELSE [KResult(PodsAfter(r.pods, host, ins.c), "none", NoText, r.val, r.pod_id,
                  lg \o set.log \o ins.log \o <<"print conn_data", "print pod_id">>)
            EXCEPT !.tool = set.tool]

\* The mutant of stop_k8s_database_main: --host is looked at before the
\* connection string.
stop_k8s_database_main_host_first(ps, args, o) ==
    IF args.pod_id # "None"
    THEN stop_k8s_database(ps, args.pod_id, o)
    ELSE IF args.host # "localhost" \/ args.conn_data # NoConn
    THEN LET found == get_pod_id_from_pod_ip(ps, IF args.host # "localhost" THEN args.host
                                                 ELSE args.conn_data.host, o) IN
         IF found.exc # "none"
         THEN KResult(ps, found.exc, NoText, NoConn, "None", <<"kubectl get pods">>)
         ELSE LET r == stop_k8s_database(ps, found.out, o) IN
              [r EXCEPT !.log = <<"kubectl get pods">> \o r.log]
    ELSE KResult(ps, "RuntimeError", NoText, NoConn, "None", <<>>)

\* db.py:428-437
stop_k8s_database_main(ps, args, o) ==
    IF args.pod_id # "None"
    THEN stop_k8s_database(ps, args.pod_id, o)
    ELSE IF args.conn_data # NoConn \/ args.host # "localhost"
    THEN LET found == get_pod_id_from_pod_ip(ps, IF args.conn_data # NoConn
                                                 THEN args.conn_data.host ELSE args.host, o) IN
         IF found.exc # "none"
         THEN KResult(ps, found.exc, NoText, NoConn, "None", <<"kubectl get pods">>)
         ELSE LET r == stop_k8s_database(ps, found.out, o) IN
              [r EXCEPT !.log = <<"kubectl get pods">> \o r.log]
    ELSE KResult(ps, "RuntimeError", NoText, NoConn, "None", <<>>)

\* The oracles of a command: the failures it can meet, a pod id not in use and
\* an address no pod has.
KStartOracles(ps, faults) ==
    {o \in KOracles : /\ o.fault \in faults
                      /\ ~Exists(ps, o.pod)
                      /\ \A q \in PodIds : Exists(ps, q) => ps[q].ip # o.ip}
KStopOracles ==
    {o \in KOracles : /\ o.fault \in {"none", "lookup", "delete"}
                      /\ o.pod = "db-1" /\ o.ip = "10.0.0.1"}

\* The state after a kubernetes command that ended as r.
KFinish(name, args, o, r) ==
    /\ r.exc # "diverges"
    /\ \A q \in PodIds : r.pods[q].db.rows <= MaxRows
    /\ pods' = r.pods
    /\ kargs' = [pod_id |-> args.pod_id, host |-> args.host]
    /\ ret_pod' = r.pod_id
    /\ op' = Operation(name, args.conn_data, NoName, "none", o)
    /\ exc' = r.exc
    /\ err' = r.err
    /\ ret' = r.val
    /\ log' = r.log
    /\ tool' = r.tool
    /\ UNCHANGED <<containers, scen, repo, notLifecycle>>

\* `freenome-build db start-k8s`
StartK8s ==
    \E args \in KStartArgs :
    \E o \in KStartOracles(pods, {"none", "create", "podwait", "describe"}) :
        /\ args.project_name = ProjectName
        /\ KFinish("start_k8s", args, o, start_k8s_database_main(pods, args, o))

\* `freenome-build db start-k8s-test-db`
StartK8sTestDb ==
    \E args \in KStartArgs :
    \E o \in KStartOracles(pods, KFaults \ {"lookup", "delete"}) :
        \* a machine drives one backend: no container is around where kubectl is used
        /\ \A n \in Names : containers[n] = NoContainer
        /\ KFinish("start_k8s_test_db", args, o,
                   start_k8s_test_database_main(pods, args, repo, o))

\* `freenome-build db stop-k8s`
StopK8s ==
    \E args \in KStopArgs : \E o \in KStopOracles :
        /\ args.project_name = ProjectName
        /\ KFinish("stop_k8s", args, o, stop_k8s_database_main(pods, args, o))

\* Environment: somebody else deletes a pod.
PodDeleted ==
    /\ \E q \in PodIds :
         /\ pods[q].phase # "none"
         /\ pods' = [pods EXCEPT ![q] = NoPod]
    /\ op' = [NoOperation EXCEPT !.name = "pod deleted"]
    /\ kargs' = NoKArgs /\ ret_pod' = "None"
    /\ exc' = "none" /\ err' = NoText /\ ret' = NoConn /\ log' = <<>> /\ tool' = NoTool
    /\ UNCHANGED <<containers, scen, repo, notLifecycle>>

\* The repositories tried with the kubernetes and the test-db commands: one without migrations, one with
\* scripts, one left to sqitch and the SQL file.
TestDbRepos == {{}, {"migrate", "insert_test_data"}, {"sqitch", "sqitch.plan", "insert_test_data.sql"}}

InitK8s ==
    /\ pods = [q \in PodIds |-> NoPod] /\ kargs = NoKArgs /\ ret_pod = "None"
    /\ containers = [n \in Names |-> NoContainer]
    /\ op = NoOperation
    /\ exc = "none" /\ err = NoText /\ ret = NoConn /\ log = <<>> /\ tool = NoTool
    /\ scen = NoScenario
    /\ repo \in TestDbRepos
    /\ cpc = "idle" /\ attempts = 0 /\ last_timestamp = 0 /\ events = <<>>
    /\ cexc = "none" /\ checks = 0 /\ podPhase = "Pending" /\ podEvents = <<>>
    /\ wpc = "idle" /\ max_wait_time = 0 /\ recheck_interval = 1 /\ iter = 0
    /\ notReady = 0 /\ connects = 0 /\ sleeps = 0 /\ elapsed = 0
    /\ given = NoInput /\ parsed = NoConn /\ conn_str = None /\ sqitch_str = None
    /\ pexc = "none" /\ pdone = {}

NextK8s ==
    \/ StartK8s
    \/ StartK8sTestDb
    \/ StopK8s

SpecK8s == InitK8s /\ [][NextK8s]_vars

\* The two start-*-test-db commands, each on its backend.
NextTestDb ==
    \/ StartLocalTestDb
    \/ StartK8sTestDb
    \/ ContainerExits
    \/ PodDeleted

SpecTestDb == InitK8s /\ [][NextTestDb]_vars

(***************************************************************************)
(* The module interface on the local backend (tests/test_test_db.py:66-71):*)
(* start_local_database and stop_local_database called directly, with any *)
(* dbname and port.                                                        *)
(***************************************************************************)
ModuleStartOracles(port_arg) ==
    {o \in Oracles : /\ o.fault \in {"none", "build", "run", "dbup"}
                     /\ port_arg # NoPort => o.free = PG_PORT}
ModuleStopConns ==
    ({ret} \ {NoConn})
    \cup {DbConnectionData("localhost", p, d, d, "None") : d \in DbNames, p \in Ports}

\* start_local_database(repo_path, project_name, dbname=..., port=...)
StartLocalDatabase ==
    \E dbname_arg \in DbNames \cup {"None"}, port_arg \in ArgPorts :
    \E o \in ModuleStartOracles(port_arg) :
        /\ port_arg = NoPort => IsFreePort(containers, o.free)
        /\ Finish("start_local_database", NoConn,
                  container_name(IF dbname_arg = "None" THEN ProjectName ELSE dbname_arg,
                                 IF port_arg = NoPort THEN find_free_port(containers, o)
                                 ELSE port_arg),
                  o,
                  start_local_database(containers, ProjectName, dbname_arg, "None", port_arg,
                                       "None", o))

\* stop_local_database(conn_data), of the object the start before returned or
\* of any other
StopLocalDatabase ==
    \E conn_data \in ModuleStopConns : \E o \in StopOracles :
        /\ conn_data.dbname \in DbNames
        /\ Finish("stop_local_database", conn_data,
                  container_name(conn_data.dbname, conn_data.port), o,
                  stop_local_database(containers, conn_data, o))

InitModule ==
    /\ containers = [n \in Names |-> NoContainer]
    /\ op = NoOperation
    /\ exc = "none" /\ err = NoText /\ ret = NoConn /\ log = <<>> /\ tool = NoTool
    /\ scen = NoScenario
    /\ repo = {}
    /\ cpc = "idle" /\ attempts = 0 /\ last_timestamp = 0 /\ events = <<>>
    /\ cexc = "none" /\ checks = 0 /\ podPhase = "Pending" /\ podEvents = <<>>
    /\ wpc = "idle" /\ max_wait_time = 0 /\ recheck_interval = 1 /\ iter = 0
    /\ notReady = 0 /\ connects = 0 /\ sleeps = 0 /\ elapsed = 0
    /\ given = NoInput /\ parsed = NoConn /\ conn_str = None /\ sqitch_str = None
    /\ pexc = "none" /\ pdone = {}
    /\ pods = [p \in PodIds |-> NoPod] /\ kargs = NoKArgs /\ ret_pod = "None"

NextModule ==
    \/ StartLocalDatabase
    \/ StopLocalDatabase
    \/ ContainerExits

SpecModule == InitModule /\ [][NextModule]_vars

(***************************************************************************)
(* class DbConnectionData (db.py:26-57)                                    *)
(* A text is a sequence of characters; the scheme names are one token      *)
(* each. urlparse is modelled by what urllib.parse does with ':', '//',    *)
(* '/', '?', '#' and '@'.                                                  *)
(***************************************************************************)
MaxFieldLen == 2      \* bound: longest host, user, password and dbname tried

NoneText == <<"N", "o", "n", "e">>      \* str(None)
Digits == <<"0", "1", "2", "3", "4", "5", "6", "7", "8", "9">>
DigitChars == {Digits[i] : i \in 1..Len(Digits)}
DigitValue(ch) == (CHOOSE i \in 1..Len(Digits) : Digits[i] = ch) - 1
SchemeChars == {"postgresql", "db", "pg", "a", "H", "h", "N", "o", "n", "e"} \cup DigitChars
Lower(ch) == IF ch = "H" THEN "h" ELSE IF ch = "N" THEN "n" ELSE ch
lower(text) == [i \in 1..Len(text) |-> Lower(text[i])]

\* str(n) and int(text, 10) for a port
RECURSIVE str_int(_)
str_int(n) == IF n < Len(Digits) THEN <<Digits[n + 1]>>
              ELSE str_int(n \div Len(Digits)) \o <<Digits[(n % Len(Digits)) + 1]>>
RECURSIVE int_str(_)
int_str(text) == IF text = <<>> THEN 0
                 ELSE int_str(SubSeq(text, 1, Len(text) - 1)) * Len(Digits)
                      + DigitValue(text[Len(text)])

\* str.find, str.rfind (0 when absent), str.partition and str.rpartition
find(text, chs) ==
    IF \E i \in 1..Len(text) : text[i] \in chs
    THEN CHOOSE i \in 1..Len(text) : text[i] \in chs /\ \A j \in 1..(i - 1) : text[j] \notin chs
    ELSE 0
rfind(text, chs) ==
    IF \E i \in 1..Len(text) : text[i] \in chs
    THEN CHOOSE i \in 1..Len(text) :
             text[i] \in chs /\ \A j \in (i + 1)..Len(text) : text[j] \notin chs
    ELSE 0
partition(text, ch) ==
    LET i == find(text, {ch}) IN
    IF i = 0 THEN [head |-> text, sep |-> FALSE, tail |-> <<>>]
    ELSE [head |-> SubSeq(text, 1, i - 1), sep |-> TRUE, tail |-> SubSeq(text, i + 1, Len(text))]
rpartition(text, ch) ==
    LET i == rfind(text, {ch}) IN
    IF i = 0 THEN [head |-> <<>>, sep |-> FALSE, tail |-> text]
    ELSE [head |-> SubSeq(text, 1, i - 1), sep |-> TRUE, tail |-> SubSeq(text, i + 1, Len(text))]

\* urllib.parse.urlparse(url): the scheme, the netloc and the path
urlparse(url) ==
    LET i == find(url, {":"})
        has_scheme == i > 1 /\ \A j \in 1..(i - 1) : url[j] \in SchemeChars
        rest == IF has_scheme THEN SubSeq(url, i + 1, Len(url)) ELSE url
        has_netloc == Len(rest) >= 2 /\ rest[1] = "/" /\ rest[2] = "/"
        after == SubSeq(rest, 3, Len(rest))
        delim == find(after, {"/", "?", "#"})
        netloc == IF ~has_netloc THEN <<>>
                  ELSE IF delim = 0 THEN after ELSE SubSeq(after, 1, delim - 1)
        tail == IF ~has_netloc THEN rest
                ELSE IF delim = 0 THEN <<>> ELSE SubSeq(after, delim, Len(after))
        path == partition(partition(tail, "#").head, "?").head IN
    [scheme |-> IF has_scheme THEN lower(SubSeq(url, 1, i - 1)) ELSE <<>>,
     netloc |-> netloc, path |-> path]

\* ParseResult.username, .password, .hostname and .port
username(netloc) ==
    LET info == rpartition(netloc, "@") IN
    IF info.sep THEN partition(info.head, ":").head ELSE None
password(netloc) ==
    LET info == rpartition(netloc, "@")
        cred == partition(info.head, ":") IN
    IF info.sep /\ cred.sep THEN cred.tail ELSE None
hostname(netloc) ==
    LET host == partition(rpartition(netloc, "@").tail, ":").head IN
    IF host = <<>> THEN None ELSE lower(host)
port_text(netloc) ==
    LET hostinfo == partition(rpartition(netloc, "@").tail, ":") IN
    IF hostinfo.sep /\ hostinfo.tail # <<>> THEN hostinfo.tail ELSE None
PortIsValid(text) ==
    text = None \/ ((\A i \in 1..Len(text) : text[i] \in DigitChars) /\ int_str(text) <= 65535)
port(netloc) == IF port_text(netloc) = None THEN NoPort ELSE int_str(port_text(netloc))

\* db.py:35-38. The port 0 stands for port None; no input has the port text "0".
from_conn_string(conn_string_arg) ==
    LET url == urlparse(conn_string_arg) IN
    IF ~PortIsValid(port_text(url.netloc)) THEN [exc |-> "ValueError", cd |-> NoConn]
    ELSE [exc |-> "none",
          cd |-> DbConnectionData(hostname(url.netloc), port(url.netloc),
                                  SubSeq(url.path, 2, Len(url.path)),
                                  username(url.netloc), password(url.netloc))]

\* f"{x}" of a text or None, and of a port or None
str(x) == IF x = None THEN NoneText ELSE x
str_port(x) == IF x = NoPort THEN NoneText ELSE str_int(x)
\* `if self.password:`
truthy(x) == x # None /\ x # <<>>

\* the mutant of credentials: the password segment is always written
credentials_always_password(cd) ==
    str(cd.user) \o <<":">> \o (IF truthy(cd.password) THEN cd.password ELSE <<>>)
\* db.py:42-44 and 50-52: the user, and ':' and the password when there is one
credentials(cd) ==
    str(cd.user) \o (IF truthy(cd.password) THEN <<":">> \o cd.password ELSE <<>>)
\* db.py:45 and 53
address(cd) == <<"@">> \o str(cd.host) \o <<":">> \o str_port(cd.port) \o <<"/">> \o str(cd.dbname)
\* db.py:40-46
conn_string(cd) == <<"postgresql", ":", "/", "/">> \o credentials(cd) \o address(cd)
\* db.py:48-54
sqitch_string(cd) == <<"db", ":", "pg", ":", "/", "/">> \o credentials(cd) \o address(cd)

\* ---- the inputs ----
Texts(chars) == UNION {[1..k -> chars] : k \in 1..MaxFieldLen}
HostTexts == Texts({"a", "H"})
UserTexts == Texts({"a", ":"})
PasswordTexts == Texts({"a", "/"})
DbnameTexts == Texts({"a", "#"})
\* objects with every field and a password
InputConnData ==
    {DbConnectionData(h, p, d, u, pw) :
        h \in HostTexts, p \in Ports, d \in DbnameTexts, u \in UserTexts, pw \in PasswordTexts}
\* connection strings without a password: with and without the ':' after the
\* user, without a user, without a port, with a port that is no number, and a
\* bare host name
UriUserTexts == Texts({"a", "@"})
UriPortTexts == {str_int(PG_PORT), <<"a">>}
InputUris ==
    {<<"postgresql", ":", "/", "/">> \o u \o colon \o <<"@">> \o h \o <<":">> \o pt \o <<"/">> \o d :
        u \in UriUserTexts, colon \in {<<>>, <<":">>}, h \in HostTexts, pt \in UriPortTexts,
        d \in DbnameTexts}
    \cup {<<"postgresql", ":", "/", "/">> \o h \o <<":">> \o pt \o <<"/">> \o d :
             h \in HostTexts, pt \in UriPortTexts, d \in DbnameTexts}
    \cup {<<"postgresql", ":", "/", "/">> \o u \o <<"@">> \o h \o <<"/">> \o d :
             u \in UriUserTexts, h \in HostTexts, d \in DbnameTexts}
    \cup HostTexts

\* The object the properties are read from.
Object == IF given.kind = "cd" THEN given.cd ELSE parsed
HasObject == given.kind = "cd" \/ ("from_conn_string" \in pdone /\ pexc = "none")

InitConnData ==
    /\ given \in {[kind |-> "cd", cd |-> cd, uri |-> None] : cd \in InputConnData}
                 \cup {[kind |-> "uri", cd |-> NoConn, uri |-> uri] : uri \in InputUris}
    /\ parsed = NoConn /\ conn_str = None /\ sqitch_str = None
    /\ pexc = "none" /\ pdone = {}
    \* nothing else is running
    /\ cpc = "idle" /\ attempts = 0 /\ last_timestamp = 0 /\ events = <<>>
    /\ cexc = "none" /\ checks = 0 /\ podPhase = "Pending" /\ podEvents = <<>>
    /\ wpc = "idle" /\ max_wait_time = 0 /\ recheck_interval = 1 /\ iter = 0
    /\ notReady = 0 /\ connects = 0 /\ sleeps = 0 /\ elapsed = 0
    /\ containers = [n \in Names |-> NoContainer]
    /\ op = NoOperation
    /\ exc = "none" /\ err = NoText /\ ret = NoConn /\ log = <<>> /\ tool = NoTool
    /\ scen = NoScenario
    /\ repo = {}
    /\ pods = [p \in PodIds |-> NoPod] /\ kargs = NoKArgs /\ ret_pod = "None"

\* cd.conn_string
ConnString ==
    /\ HasObject
    /\ "conn_string" \notin pdone
    /\ conn_str' = conn_string(Object)
    /\ pdone' = pdone \cup {"conn_string"}
    /\ UNCHANGED <<given, parsed, sqitch_str, pexc, notConnData>>

\* cd.sqitch_string
SqitchString ==
    /\ HasObject
    /\ "sqitch_string" \notin pdone
    /\ sqitch_str' = sqitch_string(Object)
    /\ pdone' = pdone \cup {"sqitch_string"}
    /\ UNCHANGED <<given, parsed, conn_str, pexc, notConnData>>

\* DbConnectionData.from_conn_string, of the given string or of the string the
\* given object was formatted to
FromConnString ==
    /\ "from_conn_string" \notin pdone
    /\ given.kind = "cd" => "conn_string" \in pdone
    /\ LET r == from_conn_string(IF given.kind = "cd" THEN conn_str ELSE given.uri) IN
         /\ parsed' = r.cd
         /\ pexc' = r.exc
    /\ pdone' = pdone \cup {"from_conn_string"}
    /\ UNCHANGED <<given, conn_str, sqitch_str, notConnData>>

NextConnData ==
    \/ ConnString
    \/ SqitchString
    \/ FromConnString

SpecConnData == InitConnData /\ [][NextConnData]_vars

(***************************************************************************)
(* Properties of _wait_for_container, under SpecContainer                  *)
(***************************************************************************)
\* C2: while the pod has not reported 'Running' and no fetched event contains
\* 'Error', the wait makes at most MAX_CONTAINER_CHECKS status checks (and then
\* raises the timeout error).
C2_StopsWithinMaxChecks ==
    (cpc \in {"loop", "events"} /\ ~HasErrorEvent(events)) => checks <= MAX_CONTAINER_CHECKS

\* C3 as stated: once the pod has an event whose message contains 'Error', the
\* wait never returns success, also when the pod status reports 'Running' at
\* that same poll or later.
C3_ErrorEventNeverSuccess == [][HasErrorEvent(podEvents) => cpc' # "returned"]_vars

\* C3 amended: once a poll that found the pod not 'Running' has fetched an event
\* whose message contains 'Error', the wait has ended with the fatal error; it
\* is in no position from which a further poll or a return is made.
C3_FetchedErrorIsFatal ==
    HasErrorEvent(events) => (cpc = "raised" /\ cexc = "RuntimeError: Container failed to start")

\* C3 witness: the fatal error was raised although the pod is 'Running' by now.
C3_Witness ==
    /\ HasErrorEvent(events)
    /\ cpc = "raised"
    /\ podPhase = "Running"

(***************************************************************************)
(* Properties of _wait_for_db_cluster_to_start, under SpecDbWait           *)
(***************************************************************************)
\* C4: when the probe fails on its first N attempts and then succeeds, with N
\* within the attempt budget, the wait never raises, it returns after exactly
\* N + 1 attempts and N sleeps, and one sleep separates consecutive attempts.
C4_ReturnsAfterNPlusOne ==
    (notReady >= 0 /\ notReady <= max_wait_time \div recheck_interval) =>
        /\ wpc # "raised"
        /\ wpc = "connect" => sleeps = connects
        /\ wpc = "sleep" => sleeps = connects - 1
        /\ wpc = "returned" => (connects = notReady + 1 /\ sleeps = notReady)
        /\ connects <= notReady + 1

\* C4 witness: a return after several failed attempts.
C4_Witness ==
    /\ wpc = "returned"
    /\ notReady >= 2
    /\ connects = notReady + 1
    /\ sleeps = notReady

\* C5: when the probe always fails, the timeout error is raised no later than
\* max_wait_time + recheck_interval after the call, counting the sleeps and the
\* time spent inside the connection attempts.
C5_TimeoutWithinDeadline ==
    (notReady = -1 /\ wpc = "raised") => elapsed <= max_wait_time + recheck_interval

(***************************************************************************)
(* Properties of the lifecycle on the local backend, under Spec            *)
(***************************************************************************)
\* C1: when start_local_test_database_main raises after the container has
\* been started (in the readiness wait, setup_db, the migrations or
\* insert_test_data), no container of that name is left behind.
C1_FailedStartLeavesNothing ==
    (op.name = "start_local_test_db" /\ exc # "none" /\ Contains(log, "wait for db"))
        => Absent(containers, op.target)

\* C6: a start whose container name is already in use, by a running or by a
\* stopped container, succeeds (docker, the wait and the environment not
\* failing by themselves) and leaves a fresh running container of that name.
C6_StartReplacesExisting ==
    (op.name = "start_local" /\ op.pre \in {"running", "exited"} /\ op.fault = "none")
        => (exc = "none" /\ containers[op.target] = [status |-> "running", db |-> FreshDb])

\* C7: stop_local_database on a container that does not exist raises
\* ContainerDoesNotExistError; every other failure of `docker kill` is raised
\* as the CalledProcessError it was, with its stderr.
C7_StopOfAbsentContainer ==
    op.name = "stop_local" =>
        /\ (op.pre \in {"none", "removed"} /\ op.fault # "kill")
              => (exc = "ContainerDoesNotExistError" /\ log = <<"docker kill">>)
        /\ op.fault = "kill" => (exc = "CalledProcessError" /\ err = DaemonError)
        /\ (op.pre = "exited" /\ op.fault # "kill")
              => (exc = "CalledProcessError" /\ err = NotRunning(op.target))

\* C7 witness: the stop of a container that was removed before.
C7_Witness ==
    /\ op.name = "stop_local"
    /\ op.pre = "removed"
    /\ op.target \in Names
    /\ exc = "ContainerDoesNotExistError"

(***************************************************************************)
(* Properties of the data operations, under SpecData                       *)
(***************************************************************************)
\* C8: when database/reset_data.sql exists and the executable
\* database/reset_data does not, a reset_data that returns has run the SQL file
\* and has dropped neither the database nor the user.
C8_ResetRunsSqlFile ==
    (op.name = "reset_data" /\ exc = "none"
     /\ "reset_data.sql" \in repo /\ "reset_data" \notin repo)
        => (Contains(log, "psql reset_data.sql") /\ ~Contains(log, "psql drop database")
            /\ ~Contains(log, "psql drop user"))

NothingToDeployReports ==
    {<<Lit("Nothing to deploy (empty plan)")>>, <<Lit("Nothing to deploy (empty plan)"), Lit("\n")>>}

\* C10: a nonzero exit of sqitch in setup_db counts as success exactly when its
\* stderr reports 'Nothing to deploy'; otherwise it is raised as the
\* CalledProcessError it was. A setup_db that follows a successful setup_db on
\* the same connection succeeds, the environment not failing by itself.
C10_SqitchFailure ==
    [][ /\ (op'.name = "setup_db" /\ tool'.ran /\ tool'.rc # 0) =>
              /\ exc' = "none" <=> tool'.stderr \in NothingToDeployReports
              /\ exc' # "none" => (exc' = "CalledProcessError" /\ err' = tool'.stderr)
        /\ (op.name = "setup_db" /\ exc = "none" /\ op'.name = "setup_db"
            /\ op'.conn = op.conn /\ op'.fault = "none") => exc' = "none" ]_vars

\* C10 witness: setup_db returned although sqitch exited nonzero.
C10_Witness ==
    /\ op.name = "setup_db"
    /\ tool.ran /\ tool.rc # 0
    /\ exc = "none"
    /\ Contains(log, "sqitch deploy")

\* C11: insert_test_data uses the first strategy that exists: the executable
\* database/insert_test_data alone; else database/insert_test_data.sql through
\* psql with the connection string (so as the target user on the target
\* database, which must exist); with neither it raises ValueError and runs no
\* command.
C11_InsertStrategy ==
    op.name = "insert_test_data" =>
        /\ "insert_test_data" \in repo => log = <<"database/insert_test_data">>
        /\ ("insert_test_data" \notin repo /\ "insert_test_data.sql" \in repo) =>
              /\ log = <<"psql insert_test_data.sql">>
              /\ exc = "none" =>
                    \E n \in Names : /\ containers[n].status = "running"
                                     /\ n[2] = op.conn.port
                                     /\ containers[n].db.user /\ containers[n].db.database
        /\ ("insert_test_data" \notin repo /\ "insert_test_data.sql" \notin repo) =>
              (exc = "ValueError" /\ log = <<>>)

\* C11 witness: both the script and the SQL file exist, and the script ran.
C11_Witness ==
    /\ op.name = "insert_test_data"
    /\ {"insert_test_data", "insert_test_data.sql"} \subseteq repo
    /\ exc = "none"
    /\ log = <<"database/insert_test_data">>

(***************************************************************************)
(* Properties of DbConnectionData, under SpecConnData                      *)
(***************************************************************************)
\* C12: an object with host, port, dbname, user and a password, formatted by
\* conn_string and parsed by from_conn_string, comes back with the same five
\* fields.
C12_RoundTrip ==
    (given.kind = "cd" /\ "from_conn_string" \in pdone)
        => (pexc = "none" /\ parsed = given.cd)

\* Whether a text begins with the given one.
StartsWith(text, prefix) ==
    Len(text) >= Len(prefix) /\ SubSeq(text, 1, Len(prefix)) = prefix

\* C13: a connection string without a password, parsed and formatted again,
\* has no password segment: after the scheme comes the user, which holds no
\* ':', and directly after it '@'.  So for conn_string and for sqitch_string.
C13_NoPasswordSegment ==
    (given.kind = "uri" /\ "from_conn_string" \in pdone /\ pexc = "none") =>
        /\ find(str(parsed.user), {":"}) = 0
        /\ "conn_string" \in pdone =>
              StartsWith(conn_str, <<"postgresql", ":", "/", "/">> \o str(parsed.user) \o <<"@">>)
        /\ "sqitch_string" \in pdone =>
              StartsWith(sqitch_str, <<"db", ":", "pg", ":", "/", "/">> \o str(parsed.user) \o <<"@">>)

\* C13 witness: a string with the ':' of an empty password was parsed and
\* formatted both ways.
C13_Witness ==
    /\ given.kind = "uri"
    /\ find(given.uri, {"@"}) > 0
    /\ given.uri[find(given.uri, {"@"}) - 1] = ":"
    /\ pdone = {"from_conn_string", "conn_string", "sqitch_string"}
    /\ pexc = "none"

\* C14: an object that from_conn_string returns has its host, port, dbname and
\* user populated.
C14_ParsedIsPopulated ==
    ("from_conn_string" \in pdone /\ pexc = "none") =>
        /\ truthy(parsed.host)
        /\ parsed.port # NoPort
        /\ truthy(parsed.dbname)
        /\ truthy(parsed.user)

(***************************************************************************)
(* Further properties of the data operations, under SpecData               *)
(***************************************************************************)
\* C17: setup_db first runs the setup SQL through psql as postgres; when that
\* succeeded it runs exactly one migration strategy: database/migrate when it
\* exists, and then never sqitch; else sqitch when database/sqitch exists;
\* with neither it raises RuntimeError and runs no migration tool.
C17_OneMigrationStrategy ==
    op.name = "setup_db" =>
        /\ Len(log) >= 1 /\ log[1] = "psql setup.sql"
        /\ Len(log) = 1 => (exc = "CalledProcessError" \/ {"migrate", "sqitch"} \cap repo = {})
        /\ "migrate" \in repo =>
              /\ log \in {<<"psql setup.sql">>, <<"psql setup.sql", "database/migrate">>}
              /\ ~tool.ran
        /\ ("migrate" \notin repo /\ "sqitch" \in repo) =>
              /\ log \in {<<"psql setup.sql">>, <<"psql setup.sql", "sqitch deploy">>}
              /\ tool.ran <=> Len(log) = 2
        /\ ("migrate" \notin repo /\ "sqitch" \notin repo) =>
              /\ log = <<"psql setup.sql">>
              /\ exc \in {"RuntimeError", "CalledProcessError"}
              /\ exc = "CalledProcessError" => err = CannotConnect
              /\ ~tool.ran

\* C17 witness: the repository has both database/migrate and database/sqitch,
\* and setup_db ran the script.
C17_Witness ==
    /\ op.name = "setup_db"
    /\ {"migrate", "sqitch"} \subseteq repo
    /\ exc = "none"
    /\ log = <<"psql setup.sql", "database/migrate">>

(***************************************************************************)
(* Properties of the module interface, under SpecModule                    *)
(***************************************************************************)
\* C19: the container that a successful start_local_database creates is the
\* one named {dbname}_{port} by the object it returns, and no other container
\* changes; stop_local_database with that object finds this container, and a
\* stop that returns leaves no container of that name and touches no other.
C19_StopTargetsWhatStartCreated ==
    [][ /\ (op'.name = "start_local_database" /\ exc' = "none") =>
              LET name == container_name(ret'.dbname, ret'.port) IN
              /\ containers'[name] = [status |-> "running", db |-> FreshDb]
              /\ containers[name].status # "running"
              /\ \A other \in Names \ {name} : containers'[other] = containers[other]
        /\ (op'.name = "stop_local_database" /\ ret # NoConn /\ op'.conn = ret) =>
              LET name == container_name(ret.dbname, ret.port) IN
              /\ op'.target = name /\ op'.pre = "running"
              /\ op'.fault = "none" => exc' = "none"
              /\ exc' = "none" => Absent(containers', name)
              /\ \A other \in Names \ {name} : containers'[other] = containers[other] ]_vars

\* C19 witness: the stop of a container started with a dbname that is not the
\* project's, on a port given by the caller.
C19_Witness ==
    /\ op.name = "stop_local_database"
    /\ op.conn.host = "local address"
    /\ op.conn.dbname = "app" /\ op.conn.port = PG_PORT + 1
    /\ op.pre = "running"
    /\ exc = "none"
    /\ Absent(containers, op.target)

(***************************************************************************)
(* Properties of the kubernetes commands, under SpecK8s                    *)
(***************************************************************************)
\* C15: stop-k8s deletes at most one pod and changes no other: the pod of
\* --pod_id when given, without any lookup; else the pod whose address is the
\* host of the connection string; else the pod whose address is --host when
\* that is not 'localhost'. With none of the three it raises RuntimeError and
\* runs no command. kubectl not failing, an existing pod so chosen is deleted.
C15_StopDeletesChosenPod ==
    [][ op'.name = "stop_k8s" =>
          LET deleted == {q \in PodIds : pods[q].phase # "none" /\ pods'[q].phase = "none"}
              changed == {q \in PodIds : pods'[q] # pods[q]}
              ip == IF op'.conn # NoConn THEN op'.conn.host ELSE kargs'.host
              byIp == {q \in PodIds : pods[q].phase # "none" /\ pods[q].ip = ip} IN
          /\ changed = deleted
          /\ Cardinality(deleted) <= 1
          /\ kargs'.pod_id # "None" =>
                /\ log' = <<"kubectl delete pod">>
                /\ deleted \subseteq {kargs'.pod_id}
                /\ (op'.fault = "none" /\ pods[kargs'.pod_id].phase # "none")
                      => (deleted = {kargs'.pod_id} /\ exc' = "none")
          /\ (kargs'.pod_id = "None" /\ (op'.conn # NoConn \/ kargs'.host # "localhost")) =>
                /\ Len(log') >= 1 /\ log'[1] = "kubectl get pods"
                /\ deleted \subseteq byIp
                /\ (op'.fault = "none" /\ byIp # {}) => (deleted = byIp /\ exc' = "none")
          /\ (kargs'.pod_id = "None" /\ op'.conn = NoConn /\ kargs'.host = "localhost") =>
                (exc' = "RuntimeError" /\ log' = <<>> /\ deleted = {}) ]_vars

\* C15 witness: with a connection string and another --host, the pod at the
\* connection string's host was looked up and deleted.
C15_Witness ==
    /\ op.name = "stop_k8s"
    /\ kargs.pod_id = "None"
    /\ op.conn # NoConn
    /\ kargs.host \notin {"localhost", op.conn.host}
    /\ exc = "none"
    /\ log = <<"kubectl get pods", "kubectl delete pod">>
    /\ \E q \in PodIds : pods[q].phase = "Running" /\ pods[q].ip = kargs.host

\* C18: start-k8s and start-k8s-test-db with a connection string (kubectl, the
\* pod and the repository's scripts not failing) return the id of a running
\* pod and connection data with the connection string's dbname and user, the
\* pod's address as host and port 5432.
C18_StartWithConnString ==
    (/\ op.name \in {"start_k8s", "start_k8s_test_db"}
     /\ op.conn # NoConn
     /\ op.fault = "none"
     /\ op.name = "start_k8s_test_db" => {"migrate", "insert_test_data"} \subseteq repo)
        => /\ exc = "none"
           /\ ret_pod \in PodIds
           /\ pods[ret_pod].phase = "Running"
           /\ ret.host = pods[ret_pod].ip /\ ret.port = PG_PORT
           /\ ret.dbname = op.conn.dbname /\ ret.user = op.conn.user

(***************************************************************************)
(* Properties of the start-*-test-db commands, under SpecTestDb            *)
(***************************************************************************)
\* C16: start-local-test-db and start-k8s-test-db print the connection string
\* (and then the pod id, on kubernetes) last, after the instance was created,
\* the wait for the database, setup_db and insert_test_data, in that order;
\* the instance printed is one that this command created and that runs; a
\* command that raises prints nothing.
C16_PrintOnlyAfterSuccess ==
    op.name \in {"start_local_test_db", "start_k8s_test_db"} =>
        LET k8s == op.name = "start_k8s_test_db"
            printed == Contains(log, "print conn_data") \/ Contains(log, "print pod_id")
            at(x) == find(log, {x})
            provision == IF k8s THEN at("kubectl create") ELSE at("docker run")
            insert == at("database/insert_test_data") + at("psql insert_test_data.sql") IN
        /\ exc # "none" => ~printed
        /\ exc = "none" => printed
        /\ printed =>
              /\ exc = "none"
              /\ 0 < provision /\ provision < at("wait for db")
              /\ at("wait for db") < at("psql setup.sql")
              /\ at("psql setup.sql") < insert
              /\ insert < at("print conn_data")
              /\ IF k8s
                 THEN /\ log[Len(log) - 1] = "print conn_data" /\ log[Len(log)] = "print pod_id"
                      /\ ret_pod \in PodIds
                      /\ pods[ret_pod].phase = "Running" /\ pods[ret_pod].ip = ret.host
                 ELSE /\ log[Len(log)] = "print conn_data"
                      /\ op.target = container_name(ret.dbname, ret.port)
                      /\ containers[op.target].status = "running"

====
